---- MODULE Spec2Model ----
(***************************************************************************)
(* Model of tracing-opentelemetry/src/tracer.rs: the PreSampledTracer      *)
(* trait and its two implementations (otel::NoopTracer and the SDK Tracer).*)
(*                                                                         *)
(* Option<T> is a sequence of length at most one: None is <<>> and Some(x) *)
(* is <<x>>.  A Vec is a sequence.  An id is a natural number and 0 is the *)
(* invalid id (TraceId::invalid(), SpanId::invalid()).                     *)
(***************************************************************************)
EXTENDS Integers, Sequences, FiniteSets, TLC

\* ---------------------------------------------------------------- bounds
\* ids are 0..MaxId (0 is the invalid sentinel)
MaxId == 1
\* number of trait-method calls made on one builder
MaxCalls == 2

\* --------------------------------------------------------------- Option
None == <<>>
Some(x) == <<x>>
IsSome(o) == o # <<>>
Unwrap(o) == o[1]

\* ------------------------------------------------------------ otel types
TRACE_FLAG_SAMPLED == 1

TraceIdInvalid == 0
SpanIdInvalid == 0

Ids == 0..MaxId

\* SpanReference::new(trace_id, span_id, trace_flags, is_remote, trace_state)
SpanReferenceNew(trace_id, span_id, trace_flags, is_remote, trace_state) ==
  [trace_id |-> trace_id, span_id |-> span_id, trace_flags |-> trace_flags,
   is_remote |-> is_remote, trace_state |-> trace_state]

\* TraceState::default()
TraceStateDefault == <<>>

\* SpanReference::empty_context()
EmptyContext ==
  SpanReferenceNew(TraceIdInvalid, SpanIdInvalid, 0, FALSE, TraceStateDefault)

\* SpanReference::is_valid()
IsValid(reference) ==
  reference.trace_id # TraceIdInvalid /\ reference.span_id # SpanIdInvalid

IsSampled(reference) == reference.trace_flags % 2 = TRACE_FLAG_SAMPLED

Decisions == {"Drop", "RecordOnly", "RecordAndSample"}

\* -------------------------------------------------- the sampler capability
\* What a sampler answers to one should_sample call is a function of the
\* call's arguments.  The family modelled here lets the decision depend on
\* whether a parent reference is passed at all (as the SDK's parent-based
\* samplers do); the additional attributes are fixed per sampler.  Nothing
\* makes a sampler answer two calls alike, so each call draws its own.
Samplers ==
  [root : Decisions, child : Decisions, attributes : {<<>>, <<"sampler">>}]

ShouldSample(sampler, parent_reference, trace_id, name, span_kind, attributes, links) ==
  [decision   |-> IF IsSome(parent_reference) THEN sampler.child ELSE sampler.root,
   attributes |-> sampler.attributes]

\* the arguments of one should_sample call
SamplerArgs(parent_reference, trace_id, name, span_kind, attributes, links) ==
  [parent_reference |-> parent_reference, trace_id |-> trace_id, name |-> name,
   span_kind |-> span_kind, attributes |-> attributes, links |-> links]

\* ------------------------------------------------------------ NoopTracer
NoopSampledSpanReference_AlwaysEmpty(builder) ==
  [reference |-> EmptyContext, builder |-> builder,
   should_sample |-> <<>>, new_ids |-> <<>>, lookups |-> <<>>]

NoopSampledSpanReference(builder) ==
  [reference |-> IF IsSome(builder.parent_reference)
                 THEN Unwrap(builder.parent_reference)
                 ELSE EmptyContext,
   builder |-> builder,
   should_sample |-> <<>>, new_ids |-> <<>>, lookups |-> <<>>]

NoopNewTraceId == TraceIdInvalid

NoopNewSpanId == SpanIdInvalid

\* ---------------------------------------------------------------- Tracer
\* Each self.provider() is one lookup of the (weakly held) provider; p is
\* what that lookup sees, g the id the generator returns if it is asked.

\* lines 60-64
ResolveSpanId_NoGenerator(builder, p, g) ==
  IF IsSome(builder.span_id) THEN Unwrap(builder.span_id) ELSE SpanIdInvalid

ResolveSpanId(builder, p, g) ==
  IF IsSome(builder.span_id) THEN Unwrap(builder.span_id)
  ELSE IF IsSome(p) THEN g ELSE SpanIdInvalid

\* lines 66-68: parent_reference.as_ref().filter(is_valid)
ValidParent(builder) ==
  IF IsSome(builder.parent_reference) /\ IsValid(Unwrap(builder.parent_reference))
  THEN builder.parent_reference
  ELSE None

\* line 69
InheritFromParent_FlagsCleared(parent_reference) ==
  <<parent_reference.trace_id, 0>>

InheritFromParent(parent_reference) ==
  <<parent_reference.trace_id, parent_reference.trace_flags>>

\* lines 71-75
ResolveTraceId_NoGenerator(builder, p, g) ==
  IF IsSome(builder.trace_id) THEN Unwrap(builder.trace_id) ELSE TraceIdInvalid

ResolveTraceId(builder, p, g) ==
  IF IsSome(builder.trace_id) THEN Unwrap(builder.trace_id)
  ELSE IF IsSome(p) THEN g ELSE TraceIdInvalid

\* lines 94-98
RecordAttributes_Replace(attributes, additional) == Some(additional)

RecordAttributes(attributes, additional) ==
  IF IsSome(attributes)
  THEN Some(Unwrap(attributes) \o additional)
  ELSE Some(additional)

\* lines 85-90: the defaults of the sampler's arguments
SpanKindOrInternal(builder) ==
  IF IsSome(builder.span_kind) THEN Unwrap(builder.span_kind) ELSE "Internal"

VecOrEmpty(o) == IF IsSome(o) THEN Unwrap(o) ELSE <<>>

\* lines 81-100: the sampler is invoked and its attributes recorded
InvokeSampler(builder, config, trace_id) ==
  LET result == ShouldSample(config.default_sampler,
                             builder.parent_reference, trace_id, builder.name,
                             SpanKindOrInternal(builder),
                             VecOrEmpty(builder.attributes),
                             VecOrEmpty(builder.links))
  IN [decision |-> result.decision,
      builder  |-> [builder EXCEPT
                      !.attributes = RecordAttributes(builder.attributes, result.attributes)],
      should_sample |-> <<SamplerArgs(builder.parent_reference, trace_id, builder.name,
                                      SpanKindOrInternal(builder),
                                      VecOrEmpty(builder.attributes),
                                      VecOrEmpty(builder.links))>>]

\* lines 78-103
SamplingDecision_ProviderFirst(builder, p, trace_id) ==
  IF IsSome(p)
  THEN InvokeSampler(builder, Unwrap(p), trace_id)
  ELSE IF IsSome(builder.sampling_result)
  THEN [decision |-> Unwrap(builder.sampling_result).decision,
        builder |-> builder, should_sample |-> <<>>]
  ELSE [decision |-> "Drop", builder |-> builder, should_sample |-> <<>>]

SamplingDecision_DefaultSample(builder, p, trace_id) ==
  IF IsSome(builder.sampling_result)
  THEN [decision |-> Unwrap(builder.sampling_result).decision,
        builder |-> builder, should_sample |-> <<>>]
  ELSE IF IsSome(p)
  THEN InvokeSampler(builder, Unwrap(p), trace_id)
  ELSE [decision |-> "RecordAndSample", builder |-> builder, should_sample |-> <<>>]

SamplingDecision(builder, p, trace_id) ==
  IF IsSome(builder.sampling_result)
  THEN [decision |-> Unwrap(builder.sampling_result).decision,
        builder |-> builder, should_sample |-> <<>>]
  ELSE IF IsSome(p)
  THEN InvokeSampler(builder, Unwrap(p), trace_id)
  ELSE [decision |-> "Drop", builder |-> builder, should_sample |-> <<>>]

\* lines 105-109
TraceFlags_RecordSampled(sampling_decision) ==
  IF sampling_decision # "Drop" THEN TRACE_FLAG_SAMPLED ELSE 0

TraceFlags(sampling_decision) ==
  IF sampling_decision = "RecordAndSample" THEN TRACE_FLAG_SAMPLED ELSE 0

\* the three self.provider() lookups are lazy: line 60, lines 70-71 and
\* lines 70, 78-80 decide whether each is performed
LooksUpSpanId(builder) == ~IsSome(builder.span_id)

LooksUpTraceId(builder) ==
  ~IsSome(ValidParent(builder)) /\ ~IsSome(builder.trace_id)

LooksUpSampler(builder) ==
  ~IsSome(ValidParent(builder)) /\ ~IsSome(builder.sampling_result)

\* what a lookup that is (not) performed saw
Seen(performed, p) ==
  IF ~performed THEN "skipped" ELSE IF IsSome(p) THEN "some" ELSE "none"

\* lines 59-115.  p1, p2, p3: what the provider lookups of lines 61, 72 and
\* 80 see; gs, gt: what the id generator returns for a span / trace id.
TracerSampledSpanReference(builder, p1, p2, p3, gs, gt) ==
  LET span_id == ResolveSpanId(builder, p1, gs)
      parent  == ValidParent(builder)
      root    == ~IsSome(parent)
      trace_id == ResolveTraceId(builder, p2, gt)
      sampled == SamplingDecision(builder, p3, trace_id)
      pair == IF IsSome(parent)
              THEN InheritFromParent(Unwrap(parent))
              ELSE <<trace_id, TraceFlags(sampled.decision)>>
      l1 == LooksUpSpanId(builder)
      l2 == LooksUpTraceId(builder)
      l3 == LooksUpSampler(builder)
  IN [reference |-> SpanReferenceNew(pair[1], span_id, pair[2], FALSE, TraceStateDefault),
      builder   |-> IF root THEN sampled.builder ELSE builder,
      should_sample |-> IF root THEN sampled.should_sample ELSE <<>>,
      new_ids |-> (IF l1 /\ IsSome(p1) THEN <<gs>> ELSE <<>>)
                  \o (IF l2 /\ IsSome(p2) THEN <<gt>> ELSE <<>>),
      lookups |-> <<Seen(l1, p1), Seen(l2, p2), Seen(l3, p3)>>]

\* lines 117-121
TracerNewTraceId(p, g) == IF IsSome(p) THEN g ELSE TraceIdInvalid

\* lines 123-127
TracerNewSpanId(p, g) == IF IsSome(p) THEN g ELSE SpanIdInvalid

\* ------------------------------------------------------------------ state
VARIABLES
  tracer,     \* "Noop" (otel::NoopTracer) or "Tracer" (sdk::trace::Tracer)
  provider,   \* TRUE while the Tracer's weak reference to its provider upgrades
  builder,    \* the otel::SpanBuilder the caller owns
  last,       \* the trait-method call that has just returned: its inputs and
              \* what it returned (NoCall between calls)
  calls,      \* number of sampled_span_reference calls made on the builder
  invoked,    \* number of should_sample invocations made for the builder
  first       \* Option: the builder's attributes after the first call

vars == <<tracer, provider, builder, last, calls, invoked, first>>

ParentReferences ==
  [trace_id : Ids, span_id : Ids, trace_flags : {0, TRACE_FLAG_SAMPLED},
   is_remote : {TRUE}, trace_state : {TraceStateDefault}]

OptionOf(S) == {None} \cup {Some(x) : x \in S}

\* SpanBuilder::from_name plus the public fields a caller may set
Builders ==
  [name : {"span"},
   span_kind : OptionOf({"Server"}),
   attributes : OptionOf({<<"a">>}),
   links : OptionOf({<<"link">>}),
   parent_reference : OptionOf(ParentReferences),
   trace_id : OptionOf(Ids),
   span_id : OptionOf(Ids),
   sampling_result : OptionOf([decision : Decisions, attributes : {<<>>}])]

\* provider.config() as a lookup sees it
Config(sampler) == [default_sampler |-> sampler]

AlwaysOff == [root |-> "Drop", child |-> "Drop", attributes |-> <<>>]

NoCall ==
  [op |-> "none", tracer |-> "none", sampler |-> AlwaysOff, pre |-> None, post |-> None,
   reference |-> None, should_sample |-> <<>>, new_ids |-> <<>>,
   lookups |-> <<>>, gs |-> 0, gt |-> 0, id |-> None]

Init ==
  /\ tracer \in {"Noop", "Tracer"}
  /\ provider \in IF tracer = "Tracer" THEN BOOLEAN ELSE {FALSE}
  /\ builder \in Builders
  /\ last = NoCall
  /\ calls = 0
  /\ invoked = 0
  /\ first = None

\* the record of one sampled_span_reference call that returned r
Resolved(r, sampler, gs, gt) ==
  [NoCall EXCEPT
     !.op = "sampled_span_reference", !.tracer = tracer, !.sampler = sampler,
     !.pre = Some(builder), !.post = Some(r.builder),
     !.reference = Some(r.reference), !.should_sample = r.should_sample,
     !.new_ids = r.new_ids, !.lookups = r.lookups,
     !.gs = gs, !.gt = gt]

AfterResolve(r) ==
  /\ builder' = r.builder
  /\ calls' = calls + 1
  /\ invoked' = invoked + Len(r.should_sample)
  /\ first' = IF calls = 0 THEN Some(r.builder.attributes) ELSE first

\* NoopTracer::sampled_span_reference(&mut builder)
SampledSpanReferenceNoop ==
  /\ tracer = "Noop"
  /\ last = NoCall
  /\ calls < MaxCalls
  /\ LET r == NoopSampledSpanReference(builder)
     IN /\ last' = Resolved(r, AlwaysOff, 0, 0)
        /\ AfterResolve(r)
  /\ UNCHANGED <<tracer, provider>>

\* self.provider() as the i-th lookup of a call sees it when the provider is
\* torn down after k lookups
Lookup(i, k, sampler) == IF i <= k THEN Some(Config(sampler)) ELSE None

\* Tracer::sampled_span_reference(&mut builder)
SampledSpanReferenceTracer ==
  /\ tracer = "Tracer"
  /\ last = NoCall
  /\ calls < MaxCalls
  /\ \E k \in IF provider THEN 0..3 ELSE {0} :
     \E gs \in IF LooksUpSpanId(builder) /\ k >= 1 THEN Ids ELSE {0},
        gt \in IF LooksUpTraceId(builder) /\ k >= 2 THEN Ids ELSE {0},
        sampler \in IF LooksUpSampler(builder) /\ k >= 3 THEN Samplers ELSE {AlwaysOff} :
       LET r == TracerSampledSpanReference(builder, Lookup(1, k, sampler),
                                           Lookup(2, k, sampler),
                                           Lookup(3, k, sampler), gs, gt)
       IN /\ last' = Resolved(r, sampler, gs, gt)
          /\ AfterResolve(r)
          /\ provider' = (k = 3)
  /\ UNCHANGED tracer

IdCall(op, p, id) ==
  [NoCall EXCEPT !.op = op, !.tracer = tracer,
                 !.lookups = <<Seen(TRUE, p)>>, !.id = Some(id)]

\* self.provider() between calls
Provider == IF provider THEN Some(Config(AlwaysOff)) ELSE None

NewTraceIdNoop ==
  /\ tracer = "Noop"
  /\ last = NoCall
  /\ last' = IdCall("new_trace_id", None, NoopNewTraceId)
  /\ UNCHANGED <<tracer, provider, builder, calls, invoked, first>>

NewSpanIdNoop ==
  /\ tracer = "Noop"
  /\ last = NoCall
  /\ last' = IdCall("new_span_id", None, NoopNewSpanId)
  /\ UNCHANGED <<tracer, provider, builder, calls, invoked, first>>

NewTraceIdTracer ==
  /\ tracer = "Tracer"
  /\ last = NoCall
  /\ \E g \in Ids :
       last' = IdCall("new_trace_id", Provider, TracerNewTraceId(Provider, g))
  /\ UNCHANGED <<tracer, provider, builder, calls, invoked, first>>

NewSpanIdTracer ==
  /\ tracer = "Tracer"
  /\ last = NoCall
  /\ \E g \in Ids :
       last' = IdCall("new_span_id", Provider, TracerNewSpanId(Provider, g))
  /\ UNCHANGED <<tracer, provider, builder, calls, invoked, first>>

\* the last strong reference to the provider is dropped
DropProvider ==
  /\ tracer = "Tracer"
  /\ provider
  /\ provider' = FALSE
  /\ UNCHANGED <<tracer, builder, last, calls, invoked, first>>

\* the caller takes what the call returned (the returned value is moved to
\* the caller; the tracer keeps nothing of it)
Return ==
  /\ last # NoCall
  /\ last' = NoCall
  /\ UNCHANGED <<tracer, provider, builder, calls, invoked, first>>

Next ==
  \/ SampledSpanReferenceNoop
  \/ SampledSpanReferenceTracer
  \/ NewTraceIdNoop
  \/ NewSpanIdNoop
  \/ NewTraceIdTracer
  \/ NewSpanIdTracer
  \/ DropProvider
  \/ Return

Spec == Init /\ [][Next]_vars

\* ----------------------------------------------------- reading a call
\* a sampled_span_reference call has just returned
Call == last.op = "sampled_span_reference"

ActiveCall == Call /\ last.tracer = "Tracer"

NullCall == Call /\ last.tracer = "Noop"

\* the builder before and after the call, and the returned reference
Pre == Unwrap(last.pre)
Post == Unwrap(last.post)
Ref == Unwrap(last.reference)

HasParent(b) == IsSome(b.parent_reference)
HasValidParent(b) == HasParent(b) /\ IsValid(Unwrap(b.parent_reference))
Parent(b) == Unwrap(b.parent_reference)

\* the sampler was invoked in the call, and what it answered
SamplerInvoked == last.should_sample # <<>>

SamplerResult ==
  LET a == last.should_sample[1]
  IN ShouldSample(last.sampler, a.parent_reference, a.trace_id, a.name,
                  a.span_kind, a.attributes, a.links)

\* no lookup of the call found the provider / none found it gone
NoProviderSeen == \A i \in 1..Len(last.lookups) : last.lookups[i] # "some"
ProviderNeverMissing == \A i \in 1..Len(last.lookups) : last.lookups[i] # "none"

\* ------------------------------------------------------------------ C1
\* C1: Active Backend: for a builder with a valid parent reference the
\* returned trace id and trace flags are exactly the parent's, whatever the
\* builder's trace_id, its sampling_result, the sampler or the provider.
C1_ParentInherited ==
  (ActiveCall /\ HasValidParent(Pre)) =>
     /\ Ref.trace_id = Parent(Pre).trace_id
     /\ Ref.trace_flags = Parent(Pre).trace_flags

\* a sampled valid parent, a builder that carries another trace id and a
\* precomputed "Drop", and a returned span id that differs from the parent's
C1_Witness ==
  /\ ActiveCall /\ HasValidParent(Pre)
  /\ Parent(Pre).trace_flags = TRACE_FLAG_SAMPLED
  /\ IsSome(Pre.trace_id) /\ Unwrap(Pre.trace_id) # Parent(Pre).trace_id
  /\ IsSome(Pre.sampling_result) /\ Unwrap(Pre.sampling_result).decision = "Drop"
  /\ Ref.span_id # Parent(Pre).span_id
  /\ Ref.trace_flags = TRACE_FLAG_SAMPLED

\* ------------------------------------------------------------------ C2
\* C2: Active Backend, root builder (no parent, no precomputed sampling
\* result) and a reachable sampler: the returned flags have the sampled bit
\* set iff the sampler decides record-and-sample, and are 0 for drop and
\* record.
C2_RootSampling ==
  (ActiveCall /\ ~HasParent(Pre) /\ ~IsSome(Pre.sampling_result) /\ SamplerInvoked) =>
     /\ IsSampled(Ref) <=> SamplerResult.decision = "RecordAndSample"
     /\ SamplerResult.decision \in {"Drop", "RecordOnly"} => Ref.trace_flags = 0

C2_Witness ==
  /\ ActiveCall /\ ~HasParent(Pre) /\ ~IsSome(Pre.sampling_result) /\ SamplerInvoked
  /\ SamplerResult.decision = "RecordOnly"
  /\ Ref.trace_flags = 0

\* ------------------------------------------------------------------ C3
\* C3: Null Backend: sampled_span_reference returns the builder's parent
\* reference if one is present and the empty reference otherwise, leaves the
\* builder unchanged and allocates no id; new_trace_id and new_span_id
\* return the invalid sentinel.
C3_NullInert ==
  /\ NullCall =>
       /\ Ref = IF HasParent(Pre) THEN Parent(Pre) ELSE EmptyContext
       /\ Post = Pre
       /\ last.new_ids = <<>>
  /\ (last.tracer = "Noop" /\ last.op = "new_trace_id") => last.id = Some(TraceIdInvalid)
  /\ (last.tracer = "Noop" /\ last.op = "new_span_id") => last.id = Some(SpanIdInvalid)

\* a parent that is present (and here not even valid) comes back verbatim
C3_Witness ==
  /\ NullCall /\ HasParent(Pre) /\ ~IsValid(Parent(Pre))
  /\ Parent(Pre).trace_flags = TRACE_FLAG_SAMPLED
  /\ Ref = Parent(Pre)

\* ------------------------------------------------------------------ C4
\* C4: Active Backend with no reachable provider: a builder with no valid
\* parent, no pre-assigned ids and no precomputed sampling result resolves to
\* the invalid trace id, the invalid span id and the sampled bit clear;
\* new_trace_id and new_span_id return the invalid sentinel.
C4_NoProviderFallback ==
  /\ (/\ ActiveCall /\ NoProviderSeen
      /\ ~HasValidParent(Pre) /\ ~IsSome(Pre.trace_id) /\ ~IsSome(Pre.span_id)
      /\ ~IsSome(Pre.sampling_result)) =>
       /\ Ref.trace_id = TraceIdInvalid
       /\ Ref.span_id = SpanIdInvalid
       /\ ~IsSampled(Ref)
       /\ ~SamplerInvoked
  /\ (last.tracer = "Tracer" /\ last.op = "new_trace_id" /\ NoProviderSeen) =>
       last.id = Some(TraceIdInvalid)
  /\ (last.tracer = "Tracer" /\ last.op = "new_span_id" /\ NoProviderSeen) =>
       last.id = Some(SpanIdInvalid)

C4_Witness ==
  /\ ActiveCall /\ last.lookups = <<"none", "none", "none">>
  /\ HasParent(Pre) /\ Parent(Pre).trace_flags = TRACE_FLAG_SAMPLED
  /\ Ref.trace_id = TraceIdInvalid /\ Ref.span_id = SpanIdInvalid
  /\ Ref.trace_flags = 0

\* ------------------------------------------------------------------ C5
\* C5: Active Backend, a call that invokes the sampler: afterwards the
\* builder's attributes are the ones it had (none counts as empty), in order,
\* followed by the sampler's additional attributes; name, kind, links, parent
\* reference, trace_id and span_id are unchanged.
C5_AttributesAppended ==
  (ActiveCall /\ SamplerInvoked) =>
     /\ Post.attributes = Some(VecOrEmpty(Pre.attributes) \o SamplerResult.attributes)
     /\ Post.name = Pre.name
     /\ Post.span_kind = Pre.span_kind
     /\ Post.links = Pre.links
     /\ Post.parent_reference = Pre.parent_reference
     /\ Post.trace_id = Pre.trace_id
     /\ Post.span_id = Pre.span_id

C5_Witness ==
  /\ ActiveCall /\ SamplerInvoked
  /\ Pre.attributes = Some(<<"a">>)
  /\ SamplerResult.attributes = <<"sampler">>
  /\ Post.attributes = Some(<<"a", "sampler">>)

\* ------------------------------------------------------------------ C6
\* C6: Active Backend, reachable provider whose generator returns valid ids:
\* a builder with no trace id, no span id and no parent resolves to a valid
\* reference whatever the sampler decides.
C6_DefaultIdsValid ==
  (/\ ActiveCall
   /\ ~IsSome(Pre.trace_id) /\ ~IsSome(Pre.span_id) /\ ~HasParent(Pre)
   /\ last.lookups[1] = "some" /\ last.lookups[2] = "some"
   /\ last.gs # SpanIdInvalid /\ last.gt # TraceIdInvalid) =>
     IsValid(Ref)

C6_Witness ==
  /\ ActiveCall
  /\ ~IsSome(Pre.trace_id) /\ ~IsSome(Pre.span_id) /\ ~HasParent(Pre)
  /\ SamplerInvoked /\ SamplerResult.decision = "Drop"
  /\ last.new_ids = <<last.gs, last.gt>>
  /\ IsValid(Ref)

\* ------------------------------------------------------------------ C7
\* the same call on the same builder without its parent reference
WithoutParent ==
  LET P(i) == IF last.lookups[i] = "some" THEN Some(Config(last.sampler)) ELSE None
  IN TracerSampledSpanReference([Pre EXCEPT !.parent_reference = None],
                                P(1), P(2), P(3), last.gs, last.gt)

\* C7: Active Backend: a builder whose parent reference is present but
\* invalid is treated as the same builder with no parent reference: the
\* sampler receives the same inputs, the returned reference is the same and
\* the builder's attributes afterwards are the same.
C7_InvalidParentAsNoParent ==
  (ActiveCall /\ HasParent(Pre) /\ ~IsValid(Parent(Pre))) =>
     /\ WithoutParent.should_sample = last.should_sample
     /\ WithoutParent.reference = Ref
     /\ WithoutParent.builder.attributes = Post.attributes

\* ------------------------------------------------------------------ C8
\* C8: Active Backend, no valid parent and a precomputed sampling result:
\* the sampler is not invoked, the attributes are left unchanged and the
\* flags come from the precomputed decision alone, provider or not.
C8_PrecomputedReused ==
  (ActiveCall /\ ~HasValidParent(Pre) /\ IsSome(Pre.sampling_result)) =>
     /\ ~SamplerInvoked
     /\ Post.attributes = Pre.attributes
     /\ Ref.trace_flags =
          IF Unwrap(Pre.sampling_result).decision = "RecordAndSample"
          THEN TRACE_FLAG_SAMPLED ELSE 0

\* the provider is reachable and the precomputed decision still wins
C8_Witness ==
  /\ ActiveCall /\ ~HasValidParent(Pre) /\ IsSome(Pre.sampling_result)
  /\ Unwrap(Pre.sampling_result).decision = "RecordAndSample"
  /\ last.lookups[1] = "some" /\ last.lookups[2] = "some"
  /\ ~SamplerInvoked
  /\ Ref.trace_flags = TRACE_FLAG_SAMPLED

\* ------------------------------------------------------------------ C9
\* C9: Active Backend, repeated calls on one builder (no valid parent, no
\* sampling result set beforehand, sampler reachable): the sampler is invoked
\* at most once and the attributes after the second and later calls are the
\* attributes after the first call.
C9_SamplingNotRepeated ==
  (/\ tracer = "Tracer"
   /\ ~HasValidParent(builder) /\ ~IsSome(builder.sampling_result)
   /\ calls >= 1) =>
     /\ invoked <= 1
     /\ builder.attributes = Unwrap(first)

\* ----------------------------------------------------------------- C10
\* C10 as stated: Active Backend: a returned reference that has the sampled
\* bit set has a valid trace id and a valid span id, for every builder,
\* provider state and sampler.
C10_SampledImpliesValid ==
  (ActiveCall /\ IsSampled(Ref)) => IsValid(Ref)

\* the ids the builder carries are valid, the provider stayed reachable and
\* its generator returned valid ids
ValidIdSources ==
  /\ IsSome(Pre.trace_id) => Unwrap(Pre.trace_id) # TraceIdInvalid
  /\ IsSome(Pre.span_id) => Unwrap(Pre.span_id) # SpanIdInvalid
  /\ ProviderNeverMissing
  /\ last.lookups[1] = "some" => last.gs # SpanIdInvalid
  /\ last.lookups[2] = "some" => last.gt # TraceIdInvalid

\* C10 as amended: Active Backend: when the builder's pre-assigned trace_id
\* and span_id (where present) are valid, the provider is reachable throughout
\* the call and its generator returns valid ids, a returned reference that has
\* the sampled bit set has a valid trace id and a valid span id.
C10_SampledImpliesValidIfSourcesValid ==
  (ActiveCall /\ IsSampled(Ref) /\ ValidIdSources) => IsValid(Ref)

C10_Witness ==
  /\ ActiveCall /\ IsSampled(Ref) /\ ValidIdSources
  /\ ~HasValidParent(Pre) /\ SamplerInvoked
  /\ last.new_ids = <<last.gs, last.gt>>
  /\ IsValid(Ref)

====
